---------------------------- MODULE Spec2Model ----------------------------
(***************************************************************************)
(* A model of mdb2django_schema.py: the schema mapping (Model.fields),     *)
(* the field mapper (Field.field_class, Field.attrs), the relationship     *)
(* index (DatabaseWrapper.get_relationships), the dependency ordering      *)
(* (DatabaseWrapper.order_models), the value conversions                   *)
(* (ValueConversion), forloop, the row cursor (Model.get_rows), the four   *)
(* emitters and the loop of run_conversion over them.                      *)
(*                                                                         *)
(* The Access file is the environment: its tables, columns, indexes,       *)
(* declared relationships and row counts are chosen in the initial state   *)
(* and never change (the file is opened read-only).                        *)
(***************************************************************************)
EXTENDS Integers, Sequences, FiniteSets, TLC

(* ------------------------------ bounds --------------------------------- *)
\* columns of the table whose schema is varied
MaxCols == 2
\* indexes declared on that table
MaxIndexes == 2
\* relationships declared in the file
MaxRels == 2
\* rows of a table
MaxRows == 2
\* conversion calls on one ValueConversion
MaxConversions == 2
\* direct calls of order_models on one wrapper
MaxCalls == 2
\* items of a sequence given to forloop
MaxLen == 4

(* --------------------------- the environment --------------------------- *)
\* db.getTableNames(), in the order the driver iterates them
TableNames == <<"Reporter", "Article", "Newspaper">>

Tables == {TableNames[i] : i \in 1..Len(TableNames)}

\* the table whose columns and indexes are varied
VariedTable == "Article"

\* column names a varied table draws from
ColumnPool == {"id", "title", "reporter"}

\* the schema of every other table: Reporter(id) / Article(reporter_id) with
\* a single-column primary key on id
StdColumns == <<"id", "reporter_id">>

StdIndexes == <<[columns |-> <<"id">>, unique |-> TRUE, primaryKey |-> TRUE]>>

\* column.name of PrimaryKeyField: Python's None
None == "None"

\* the declared length of a memo column
MEMO_LENGTH == 8190

\* the type and length of the key columns of the standard tables
StdType == [name |-> "LONG", length |-> 4]

\* DatabaseWrapper.OUTPUT_TYPES, by name and in order
OUTPUT_TYPES == <<"models", "admin", "fixture", "postgresql">>

VARIABLES
    columns,      \* table -> access_table.getColumns(): sequence of names
    indexes,      \* table -> access_table.indexes: sequence of indexes
    declared,     \* the relationships declared in the file
    hidden,       \* the tables table2model_name maps to None
    nameMap,      \* which column2field_name the wrapper was built with
    rowCount,     \* table -> access_table.getRowCount()
    coltype,      \* table -> column name -> [name, length]: column.type.name()
                  \* and column.length
    app_name,     \* DatabaseWrapper.app_name
    schema,       \* DatabaseWrapper.schema, None when not given
    keep_table_names, \* DatabaseWrapper.keep_table_names
    custom_conversion, \* which custom_conversion the wrapper was built with
    selected,     \* the outputs whose opts.<name>_file is not None
    fieldsCache,  \* memoize cache of Model.fields: table -> <<>> or <<list>>
    relCache,     \* memoize cache of get_relationships: <<>> or <<dicts>>
    builds,       \* how many times the body of get_relationships has run
    queries,      \* the db.getRelationships(t1, t2) calls made, in order
    orderedCache, \* memoize cache of ordered_models: <<>> or <<list>>
    done,         \* the default argument done=set() of order_models
    stack,        \* the active order_models generators, innermost last
    yielded,      \* what the outermost order_models has yielded so far
    returned,     \* list(order_models(models)) of each finished direct call
    out,          \* the items an emitter has yielded
    pc,           \* "idle", the emitter whose generator is running, "done"
    position,     \* how many of OUTPUT_TYPES the loop of run_conversion took
    cursor,       \* table -> rows getNextRow() has handed out since reset()
    passes,       \* the iterators get_rows returned, in the order of the calls
    exc           \* the exception that ended the run, "" while none

env == <<columns, indexes, declared, hidden, nameMap, rowCount, coltype,
         app_name, schema, keep_table_names, custom_conversion, selected>>

indexVars == <<relCache, builds, queries>>

orderVars == <<orderedCache, done, stack, yielded, returned>>

outVars == <<out, pc, position>>

rowVars == <<cursor, passes>>

vars == <<columns, indexes, declared, hidden, nameMap, rowCount, coltype,
          app_name, schema, keep_table_names, custom_conversion, selected,
          fieldsCache, relCache, builds, queries, orderedCache, done, stack,
          yielded, returned, out, pc, position, cursor, passes, exc>>

\* the keyword defaults of DatabaseWrapper.__init__
DefaultOptions ==
    /\ app_name = "myapp"
    /\ schema = None
    /\ keep_table_names = FALSE
    /\ custom_conversion = "identity"

\* nothing has run yet: run_conversion has taken no output type, no table
\* has been read, order_models has not been called
Fresh ==
    /\ position = 0
    /\ cursor = [t \in {TableNames[i] : i \in 1..Len(TableNames)} |-> 0]
    /\ passes = <<>>
    /\ returned = <<>>

(* ------------------------------ helpers -------------------------------- *)
Range(s) == {s[i] : i \in 1..Len(s)}

Injective(s) == \A i, j \in 1..Len(s) : s[i] = s[j] => i = j

SeqsUpTo(S, n) == UNION {[1..k -> S] : k \in 0..n}

Max(S) == CHOOSE m \in S : \A k \in S : k <= m

\* the position of x in seq
Pos(seq, x) == CHOOSE i \in 1..Len(seq) : seq[i] = x

(* ------------------------- forloop (lines 93-105) ---------------------- *)
\* a triple (is_first, item, is_last) forloop yields
Triple(first, item, last) == [first |-> first, item |-> item, last |-> last]

\* the loop of forloop over the items left in seq: first is the flag of
\* that name, last is <<>> while last_item is not a local and else holds
\* last_was_first and last_item, res is what was yielded so far.  From the
\* second item on the loop yields the item before with is_last False;
\* after the loop the last item is yielded with is_last True.
RECURSIVE forloop_loop(_, _, _, _)
forloop_loop(seq, first, last, res) ==
    IF seq = <<>>
    THEN IF last # <<>>
         THEN Append(res, Triple(last[1].was_first, last[1].item, TRUE))
         ELSE res
    ELSE forloop_loop(
             Tail(seq), FALSE,
             <<[was_first |-> first, item |-> Head(seq)]>>,
             IF ~first
             THEN Append(res, Triple(last[1].was_first, last[1].item, FALSE))
             ELSE res)

\* a forloop that yields every item inside the loop, none of them as last
forloop_inside_only(seq) ==
    [i \in 1..Len(seq) |-> Triple(i = 1, seq[i], FALSE)]

\* list(forloop(seq))
forloop(seq) == forloop_loop(seq, TRUE, <<>>, <<>>)

(* --------------------- name mappings (constructor) --------------------- *)
\* DatabaseWrapper.table2model_name: the default lambda s: s, or a function
\* that returns None for the hidden tables
table2model_name(t) == IF t \in hidden THEN None ELSE t

\* DatabaseWrapper.column2field_name(column_name, primary_key): the default
\* lambda c, pk: c ("verbatim"), or one that names the key "pk" and
\* renames the column title to headline ("custom")
column2field_name(c, pk) ==
    IF nameMap = "verbatim" THEN c
    ELSE IF pk THEN "pk"
    ELSE IF c = "title" THEN "headline"
    ELSE c

(* ------------------------------- Field --------------------------------- *)
\* Field(model, column); PrimaryKeyField(model) has no backing column
Field(t, c) == [model |-> t, column |-> c, synth |-> FALSE]

PrimaryKeyField(t) == [model |-> t, column |-> None, synth |-> TRUE]

\* Model.single_column_indexes: dict((i.columns[0].name, i) ...) over the
\* indexes with one column; a later index on the same column replaces an
\* earlier one
single_column_indexes(t) ==
    LET one(n) == {k \in 1..Len(indexes[t]) :
                       /\ Len(indexes[t][k].columns) = 1
                       /\ indexes[t][k].columns[1] = n}
        keys == {n \in Range(columns[t]) : one(n) # {}}
    IN  [n \in keys |-> indexes[t][Max(one(n))]]

\* Model.multicolumn_indexes
multicolumn_indexes(t) ==
    SelectSeq(indexes[t], LAMBDA i : Len(i.columns) > 1)

\* a primary_key that never asks the index
primary_key_of_class(f) == f.synth

\* Field.primary_key: self.index.isPrimaryKey(), False on KeyError;
\* PrimaryKeyField.primary_key = True
primary_key(f) ==
    IF f.synth THEN TRUE
    ELSE IF f.column \in DOMAIN single_column_indexes(f.model)
         THEN single_column_indexes(f.model)[f.column].primaryKey
         ELSE FALSE

\* Field.name / PrimaryKeyField.name
name(f) ==
    IF f.synth THEN "id" ELSE column2field_name(f.column, primary_key(f))

(* ------------------------------- Model --------------------------------- *)
\* Model.fields, the body of the memoized property: the columns' fields
\* stably sorted by "not primary_key", then _field_list[0] is read (an
\* IndexError on an empty list) and a PrimaryKeyField inserted when it is
\* not a primary key
compute_fields(t) ==
    LET all == [i \in 1..Len(columns[t]) |-> Field(t, columns[t][i])]
        _field_list == SelectSeq(all, LAMBDA f : primary_key(f))
                       \o SelectSeq(all, LAMBDA f : ~primary_key(f))
    IN  IF _field_list = <<>>
        THEN [raised |-> "IndexError", value |-> <<>>]
        ELSE IF ~primary_key(_field_list[1])
        THEN [raised |-> "", value |-> <<PrimaryKeyField(t)>> \o _field_list]
        ELSE [raised |-> "", value |-> _field_list]

\* Model.fields as later code reads it (the cache holds what the body
\* returned; nothing is mutated after construction)
fields(t) == compute_fields(t).value

\* Model.primary_key: the first field with primary_key
model_primary_key(t) ==
    LET fs == fields(t)
    IN  fs[CHOOSE i \in 1..Len(fs) :
               primary_key(fs[i]) /\ \A j \in 1..(i-1) : ~primary_key(fs[j])]

\* Model.name
model_name(t) == table2model_name(t)

\* str.lower() on the model names
lower(s) ==
    CASE s = "Reporter" -> "reporter"
      [] s = "Article" -> "article"
      [] s = "Newspaper" -> "newspaper"
      [] OTHER -> s

\* Model.db_table: a property, so app_name is always its default 'myapp';
\* '%s_%s' % (app_name, self.name.lower()) is kept as its parts
db_table(t) ==
    IF keep_table_names THEN <<t>>
    ELSE <<"myapp", "_", lower(model_name(t))>>

\* Model.pg_table: '"%s"' % db_table, behind '"%s".' % schema when a
\* schema is given
pg_table(t) == [schema |-> schema, table |-> db_table(t)]

\* the table of the Meta db_table line of Model.as_python:
\* r"%s\".\"%s" % (schema, db_table) when a schema is given
meta_db_table(t) == [schema |-> schema, table |-> db_table(t)]

(* ---------------------------- the field mapper ------------------------- *)
\* a foreign_key that is False for a primary key
foreign_key_unless_primary(forward, f) ==
    IF f \in DOMAIN forward /\ ~primary_key(f) THEN <<forward[f]>> ELSE <<>>

\* Field.foreign_key read from the forward dict: <<>> for False, else the
\* Relationship
foreign_key(forward, f) ==
    IF f \in DOMAIN forward THEN <<forward[f]>> ELSE <<>>

\* Field.field_class; None when no branch returns
field_class(forward, f) ==
    LET type == coltype[f.model][f.column]
    IN  IF foreign_key(forward, f) # <<>> THEN "ForeignKey"
        ELSE IF type.name = "TEXT"
             THEN IF type.length = MEMO_LENGTH THEN "TextField"
                  ELSE "CharField"
        ELSE IF type.name \in {"INT", "LONG"}
             THEN IF primary_key(f) THEN "AutoField" ELSE "IntegerField"
        ELSE IF type.name = "BOOLEAN" THEN "BooleanField"
        ELSE IF type.name = "SHORT_DATE_TIME" THEN "DateTimeField"
        ELSE None

\* one attribute Field.attrs yields: its keyword (or "to" for the target
\* model, "label" for the positional label) and its text or number
Attr(att, str, num) == [att |-> att, str |-> str, num |-> num]

\* Field.attrs, in the order of the yields.  The label is
\* camelcase2english(self.name) and is kept as the name.
attrs(forward, f) ==
    LET fk == foreign_key(forward, f)
        type == coltype[f.model][f.column]
        head ==
            IF fk # <<>>
            THEN <<Attr("to", model_name(fk[1].from_field.model), 0)>>
                 \o (IF name(fk[1].from_field) # "id"
                     THEN <<Attr("to_field", name(fk[1].from_field), 0)>>
                     ELSE <<>>)
                 \o <<Attr("verbose_name", name(f), 0)>>
            ELSE <<Attr("label", name(f), 0)>>
                 \o (IF type.name = "TEXT" /\ type.length # MEMO_LENGTH
                     THEN <<Attr("max_length", "", type.length)>>
                     ELSE <<>>)
        \* try: ... except KeyError: pass -- self.index raises KeyError
        \* when the column name is no key of single_column_indexes
        markers ==
            IF primary_key(f) THEN <<Attr("primary_key", "True", 0)>>
            ELSE IF f.column \in DOMAIN single_column_indexes(f.model)
            THEN <<Attr("db_index", "True", 0)>>
                 \o (IF single_column_indexes(f.model)[f.column].unique
                     THEN <<Attr("unique", "True", 0)>>
                     ELSE <<>>)
            ELSE <<>>
        tail ==
            IF name(f) # f.column THEN <<Attr("db_column", f.column, 0)>>
            ELSE <<>>
    IN  head \o markers \o tail

(* -------------------------- Model.output_fixture ----------------------- *)
\* the value of column c in row r of table t, as the driver hands it over
Cell(t, r, c) == <<t, r, c>>

\* one record of Model.output_fixture (lines 419-427) for row r (0-based):
\* pk is the key column's value, or counter.next() when the key has no
\* columnIndex (the AttributeError branch); fields keeps the row's entries
\* whose key differs from self.primary_key.name; model is
\* '%s.%s' % (app_name, self.name.lower()), kept as its parts
fixture_data(t, r) ==
    LET pkf == model_primary_key(t)
        keys == {c \in Range(columns[t]) : c # name(pkf)}
    IN  [pk |-> IF pkf.synth THEN <<"counter", r, None>>
                ELSE Cell(t, r, pkf.column),
         model |-> <<app_name, lower(model_name(t))>>,
         fields |-> [c \in keys |-> Cell(t, r, c)]]

\* Model.output_fixture: one JSON line per row (json.dumps without indent
\* gives one line), each followed by ',' except the last row's
model_output_fixture(t) ==
    LET rows == [r \in 1..rowCount[t] |-> r - 1]
        fl == forloop(rows)
    IN  [i \in 1..Len(fl) |->
            [data |-> fixture_data(t, fl[i].item), comma |-> ~fl[i].last]]

(* ------------------- the schema mapping of one table ------------------- *)
\* the indexes a table with columns cs can declare: one column or the
\* first two, plain, unique, or the primary key (which is unique)
IndexPool(cs) ==
    LET cols == {<<c>> : c \in Range(cs)}
                \cup (IF Len(cs) >= 2 THEN {<<cs[1], cs[2]>>} ELSE {})
        kinds == {<<FALSE, FALSE>>, <<TRUE, FALSE>>, <<TRUE, TRUE>>}
    IN  {[columns |-> c, unique |-> k[1], primaryKey |-> k[2]] :
            c \in cols, k \in kinds}

\* a table has at most one primary key
OnePrimaryKey(is) ==
    Cardinality({k \in 1..Len(is) : is[k].primaryKey}) <= 1

StdSchema ==
    /\ declared = {}
    /\ hidden = {}
    /\ relCache = <<>>
    /\ builds = 0
    /\ queries = <<>>
    /\ orderedCache = <<>>
    /\ done = {}
    /\ stack = <<>>
    /\ yielded = <<>>

InitModel ==
    /\ \E cs \in SeqsUpTo(ColumnPool, MaxCols) :
         /\ Injective(cs)
         /\ columns = [t \in Tables |-> IF t = VariedTable THEN cs
                                        ELSE StdColumns]
         /\ \E is \in SeqsUpTo(IndexPool(cs), MaxIndexes) :
              /\ OnePrimaryKey(is)
              /\ indexes = [t \in Tables |-> IF t = VariedTable THEN is
                                             ELSE StdIndexes]
    /\ nameMap \in {"verbatim", "custom"}
    /\ rowCount = [t \in Tables |-> 1]
    /\ coltype = [t \in Tables |-> [c \in Range(columns[t]) |-> StdType]]
    /\ DefaultOptions
    /\ selected = {}
    /\ Fresh
    /\ StdSchema
    /\ fieldsCache = [t \in Tables |-> <<>>]
    /\ out = <<>>
    /\ pc = "idle"
    /\ exc = ""

\* reading model.fields (memoized_property, lines 35-41 and 300-308): the
\* body runs when the model is not in the cache; an exception leaves the
\* cache as it was and ends the run
ReadFields(t) ==
    /\ exc = ""
    /\ IF fieldsCache[t] # <<>>
       THEN UNCHANGED <<fieldsCache, exc>>
       ELSE LET r == compute_fields(t)
            IN  IF r.raised # ""
                THEN exc' = r.raised /\ UNCHANGED fieldsCache
                ELSE /\ fieldsCache' = [fieldsCache EXCEPT ![t] = <<r.value>>]
                     /\ UNCHANGED exc
    /\ UNCHANGED <<env, indexVars, orderVars, outVars, rowVars>>

\* list(model.output_fixture(app_name, valueconversion)): self.primary_key
\* reads model.fields first
EmitModelFixture(t) ==
    /\ exc = ""
    /\ out = <<>>
    /\ LET r == compute_fields(t)
       IN  IF fieldsCache[t] = <<>> /\ r.raised # ""
           THEN exc' = r.raised /\ UNCHANGED <<fieldsCache, out>>
           ELSE /\ fieldsCache' = [fieldsCache EXCEPT ![t] = <<r.value>>]
                /\ out' = model_output_fixture(t)
                /\ UNCHANGED exc
    /\ UNCHANGED <<env, indexVars, orderVars, pc, position, rowVars>>

NextModel ==
    \/ ReadFields(VariedTable)
    \/ EmitModelFixture(VariedTable)

SpecModel == InitModel /\ [][NextModel]_vars

(* ------------------------ the relationship index ----------------------- *)
\* DatabaseWrapper.models: a Model per table name, those named None dropped
models == SelectSeq(TableNames, LAMBDA t : model_name(t) # None)

\* db.getRelationships(table1, table2): the relationships declared between
\* two different tables, in either direction
getRelationships(t1, t2) ==
    {ar \in declared : {ar.toTable, ar.fromTable} = {t1, t2}}

\* Model.get_field_by_column: fields_by_column_name[column.name]
get_field_by_column(t, c) ==
    CHOOSE f \in Range(fields(t)) : f.column = c

\* DatabaseWrapper.get_model_by_table raises KeyError for a table that has
\* no Model in self.models
RelationshipRaises(ar) ==
    ar.toTable \notin Range(models) \/ ar.fromTable \notin Range(models)

\* Relationship.__init__: the leading column of each side, as Fields
Relationship(ar) ==
    [to_field |-> get_field_by_column(ar.toTable, ar.toColumn),
     from_field |-> get_field_by_column(ar.fromTable, ar.fromColumn)]

\* the loop "for table_name in table_names[1:]" of _add_relationships:
\* one query per table paired with the head, a[to, from] = r for each
\* relationship returned; an exception ends it
RECURSIVE pair_loop(_, _, _)
pair_loop(result, head, others) ==
    IF others = <<>> \/ result.raised # "" THEN result
    ELSE LET rs == getRelationships(head, others[1])
             ok == {ar \in rs : ~RelationshipRaises(ar)}
         IN  pair_loop(
                 [all |-> result.all \cup {Relationship(ar) : ar \in ok},
                  log |-> Append(result.log, <<head, others[1]>>),
                  raised |-> IF ok # rs THEN "KeyError" ELSE ""],
                 head, Tail(others))

\* DatabaseWrapper._add_relationships: pair the head with every other
\* table, then recurse on table_names[1:]
RECURSIVE _add_relationships(_, _)
_add_relationships(result, table_names) ==
    IF Len(table_names) > 1 /\ result.raised = ""
    THEN _add_relationships(
             pair_loop(result, table_names[1], Tail(table_names)),
             Tail(table_names))
    ELSE result

\* the gathering get_relationships starts, on list(db.getTableNames())
gathered ==
    _add_relationships([all |-> {}, log |-> <<>>, raised |-> ""], TableNames)

\* the forward dicts "forward[to_field] = relationship" can leave: for a
\* to_field with several relationships the one iterated last stays, and
\* all_.iteritems() iterates in hash order
ForwardDicts(all) ==
    LET keys == {r.to_field : r \in all}
    IN  {f \in [keys -> all] : \A k \in keys : f[k].to_field = k}

\* reverse[from_field].add(relationship) over all_
ReverseDict(all) ==
    [k \in {r.from_field : r \in all} |-> {r \in all : r.from_field = k}]

\* reverse is a defaultdict(set): reverse[k] for a missing k stores set()
Lookup(reverse, touched) ==
    [k \in DOMAIN reverse \cup touched |->
        IF k \in DOMAIN reverse THEN reverse[k] ELSE {}]

\* the models whose fields the Relationship constructors read
EndpointTables(all) ==
    {r.to_field.model : r \in all} \cup {r.from_field.model : r \in all}

Memoized(cache, ts) ==
    [t \in Tables |-> IF t \in ts THEN <<fields(t)>> ELSE cache[t]]

\* the memoized get_relationships (lines 35-41, 532-545) followed by
\* reverse[k] for the fields in touched: the body runs when the wrapper is
\* not in the cache; an exception leaves the cache unset and ends the run.
\* readers are the models whose fields the caller iterates.
get_relationships(touched, readers) ==
    /\ exc = ""
    /\ IF relCache # <<>>
       THEN /\ relCache' = <<[relCache[1] EXCEPT
                               !.reverse = Lookup(@, touched)]>>
            /\ fieldsCache' = Memoized(fieldsCache, readers)
            /\ UNCHANGED <<builds, queries, exc>>
       ELSE /\ builds' = builds + 1
            /\ queries' = queries \o gathered.log
            /\ IF gathered.raised # ""
               THEN /\ exc' = gathered.raised
                    /\ fieldsCache' =
                         Memoized(fieldsCache,
                                  readers \cup EndpointTables(gathered.all))
                    /\ UNCHANGED relCache
               ELSE /\ \E fwd \in ForwardDicts(gathered.all) :
                         relCache' =
                           <<[all |-> gathered.all,
                              forward |-> fwd,
                              reverse |-> Lookup(ReverseDict(gathered.all),
                                                 touched)]>>
                    /\ fieldsCache' =
                         Memoized(fieldsCache,
                                  readers \cup EndpointTables(gathered.all))
                    /\ UNCHANGED exc

\* a call of get_relationships by a reader that does nothing else
CallGetRelationships(touched, readers) ==
    /\ get_relationships(touched, readers)
    /\ UNCHANGED <<env, orderVars, outVars, rowVars>>

\* the Field objects of a model (PrimaryKeyField has foreign_key = False and
\* reverse_foreign_keys = () as class attributes and looks nothing up)
RealFields(t) == {f \in Range(fields(t)) : ~f.synth}

AllFields == UNION {RealFields(t) : t \in Range(models)}

\* DatabaseWrapper.relationships
ReadRelationships == CallGetRelationships({}, {})

\* DatabaseWrapper.reverse_relationships
ReadReverseRelationships == CallGetRelationships({}, {})

\* Field.foreign_key: "self not in self.database.relationships"
FieldForeignKey(f) == CallGetRelationships({}, {})

\* list(Field.reverse_foreign_keys): self.database.reverse_relationships[self]
FieldReverseForeignKeys(f) == CallGetRelationships({f}, {})

\* list(Model.foreign_keys): field.foreign_key for each of self.fields
ModelForeignKeys(t) == CallGetRelationships({}, {t})

\* list(Model.reverse_foreign_keys): field.reverse_foreign_keys for each
ModelReverseForeignKeys(t) == CallGetRelationships(RealFields(t), {t})

\* the relationships a file can declare: any column of a table referencing
\* the id column of a table
RelPool ==
    {[toTable |-> c, toColumn |-> cc, fromTable |-> p, fromColumn |-> "id"] :
        c \in Tables, cc \in Range(StdColumns), p \in Tables}

\* the tables a table2model_name given to the wrapper may map to None
Hideable == {"Newspaper"}

InitRel ==
    /\ columns = [t \in Tables |-> StdColumns]
    /\ indexes = [t \in Tables |-> StdIndexes]
    /\ declared \in {d \in SUBSET RelPool : Cardinality(d) <= MaxRels}
    /\ hidden \in SUBSET Hideable
    /\ nameMap = "verbatim"
    /\ rowCount = [t \in Tables |-> 0]
    /\ coltype = [t \in Tables |-> [c \in Range(columns[t]) |-> StdType]]
    /\ DefaultOptions
    /\ selected = {}
    /\ Fresh
    /\ fieldsCache = [t \in Tables |-> <<>>]
    /\ relCache = <<>>
    /\ builds = 0
    /\ queries = <<>>
    /\ orderedCache = <<>>
    /\ done = {}
    /\ stack = <<>>
    /\ yielded = <<>>
    /\ out = <<>>
    /\ pc = "idle"
    /\ exc = ""

NextIndex ==
    \/ ReadRelationships
    \/ ReadReverseRelationships
    \/ \E f \in AllFields : FieldForeignKey(f)
    \/ \E f \in AllFields : FieldReverseForeignKeys(f)
    \/ \E t \in Range(models) : ModelForeignKeys(t)
    \/ \E t \in Range(models) : ModelReverseForeignKeys(t)

SpecIndex == InitRel /\ [][NextIndex]_vars

(* ------------------------ the dependency order ------------------------- *)
\* Model.foreign_keys: field.foreign_key of each field that has one, read
\* from the forward dict
foreign_keys(forward, t) ==
    {forward[f] : f \in RealFields(t) \cap DOMAIN forward}

\* Model.related_models: frozenset(relation.from_field.model ...)
related_models(forward, t) ==
    {r.from_field.model : r \in foreign_keys(forward, t)}

\* the orders in which a frozenset can be iterated
Orders(S) == {s \in [1..Cardinality(S) -> S] : Injective(s)}

\* order_models without "if model in done: continue"
skipped_by_name_only(m, d) == model_name(m) = None

\* order_models: "if model.name is None: continue / if model in done:
\* continue"
skipped(m, d) == model_name(m) = None \/ m \in d

\* what ordered_models hands to order_models
models_to_order == models

\* a generator of order_models: the models it has still to look at, and the
\* model it will yield once the generator of its related models is exhausted
Frame(ms, m) == [iter |-> ms, cur |-> m]

\* ordered_models (memoized_property): list(self.order_models(self.models)),
\* with the default argument as done; a cached list is returned as it is
ReadOrderedModels ==
    /\ exc = ""
    /\ stack = <<>>
    /\ IF orderedCache # <<>>
       THEN UNCHANGED <<stack, yielded>>
       ELSE /\ stack' = <<Frame(models_to_order, <<>>)>>
            /\ yielded' = <<>>
    /\ UNCHANGED <<env, fieldsCache, indexVars, orderedCache, done, returned,
                   outVars, rowVars, exc>>

\* the innermost generator looks at its next model and skips it
OrderSkip ==
    /\ exc = ""
    /\ stack # <<>>
    /\ LET n == Len(stack)
           top == stack[n]
       IN  /\ top.iter # <<>>
           /\ skipped(Head(top.iter), done)
           /\ stack' = [stack EXCEPT ![n].iter = Tail(@)]
    /\ UNCHANGED <<env, fieldsCache, indexVars, orderedCache, done, yielded,
                   returned, outVars, rowVars, exc>>

\* the innermost generator looks at its next model, adds it to done and
\* starts order_models(model.related_models, done); related_models reads
\* the model's fields and the forward dict, which builds the index when it
\* is not built yet
OrderVisit ==
    /\ exc = ""
    /\ stack # <<>>
    /\ LET n == Len(stack)
           top == stack[n]
           m == Head(top.iter)
       IN  /\ top.iter # <<>>
           /\ ~skipped(m, done)
           /\ done' = done \cup {m}
           /\ IF relCache = <<>>
              THEN /\ builds' = builds + 1
                   /\ queries' = queries \o gathered.log
                   /\ fieldsCache' =
                        Memoized(fieldsCache,
                                 {m} \cup EndpointTables(gathered.all))
                   /\ IF gathered.raised # ""
                      THEN /\ exc' = gathered.raised
                           /\ stack' = <<>>
                           /\ UNCHANGED relCache
                      ELSE /\ \E fwd \in ForwardDicts(gathered.all) :
                                /\ relCache' =
                                     <<[all |-> gathered.all,
                                        forward |-> fwd,
                                        reverse |-> ReverseDict(gathered.all)]>>
                                /\ \E ms \in Orders(related_models(fwd, m)) :
                                     stack' =
                                       Append([stack EXCEPT
                                                 ![n] = Frame(Tail(top.iter),
                                                              <<m>>)],
                                              Frame(ms, <<>>))
                           /\ UNCHANGED exc
              ELSE /\ \E ms \in Orders(related_models(relCache[1].forward, m)) :
                        stack' =
                          Append([stack EXCEPT
                                    ![n] = Frame(Tail(top.iter), <<m>>)],
                                 Frame(ms, <<>>))
                   /\ fieldsCache' = Memoized(fieldsCache, {m})
                   /\ UNCHANGED <<indexVars, exc>>
    /\ UNCHANGED <<env, orderedCache, yielded, returned, outVars, rowVars>>

\* the innermost generator is exhausted: the generator that started it
\* yields its model (every generator below passes it on to list()); when
\* the outermost one is exhausted, list() returns and the list is cached
OrderReturn ==
    /\ exc = ""
    /\ stack # <<>>
    /\ LET n == Len(stack)
       IN  /\ stack[n].iter = <<>>
           /\ IF n = 1
              THEN /\ stack' = <<>>
                   /\ orderedCache' = <<yielded>>
                   /\ UNCHANGED yielded
              ELSE /\ stack' = [SubSeq(stack, 1, n - 1) EXCEPT
                                  ![n - 1].cur = <<>>]
                   /\ yielded' = yielded \o stack[n - 1].cur
                   /\ UNCHANGED orderedCache
    /\ UNCHANGED <<env, fieldsCache, indexVars, done, returned, outVars,
                   rowVars, exc>>

NextOrder ==
    \/ ReadOrderedModels
    \/ OrderSkip
    \/ OrderVisit
    \/ OrderReturn

SpecOrder == InitRel /\ [][NextOrder]_vars

(* ----------------------------- the row cursor ------------------------- *)
\* the cursors and the iterators as one value
Rows == [cursor |-> cursor, passes |-> passes]

\* a get_rows that leaves the cursor where it is
get_rows_without_reset(s, t) ==
    [cursor |-> s.cursor,
     passes |-> Append(s.passes, [table |-> t, rows |-> <<>>, open |-> TRUE])]

\* Model.get_rows: access_table.reset() at once, and a lazy iterator
\* (takewhile over getNextRow()) that has handed out no row yet
get_rows(s, t) ==
    [cursor |-> [s.cursor EXCEPT ![t] = 0],
     passes |-> Append(s.passes, [table |-> t, rows |-> <<>>, open |-> TRUE])]

\* next() on the p-th iterator: getNextRow() hands out the row under the
\* table's cursor and moves the cursor, or None at the end of the table,
\* where takewhile stops; an iterator that stopped reads no more
next_row(s, p) ==
    LET t == s.passes[p].table
    IN  IF ~s.passes[p].open THEN s
        ELSE IF s.cursor[t] < rowCount[t]
        THEN [cursor |-> [s.cursor EXCEPT ![t] = @ + 1],
              passes |-> [s.passes EXCEPT
                            ![p].rows = Append(@, s.cursor[t])]]
        ELSE [cursor |-> s.cursor,
              passes |-> [s.passes EXCEPT ![p].open = FALSE]]

\* n times next() on the p-th iterator
RECURSIVE next_rows(_, _, _)
next_rows(s, p, n) ==
    IF n = 0 THEN s ELSE next_rows(next_row(s, p), p, n - 1)

\* the cursors and iterators become those of s
SetRows(s) == cursor' = s.cursor /\ passes' = s.passes

\* the iterator the last get_rows of table t returned
LastPass(s, t) == Max({p \in 1..Len(s.passes) : s.passes[p].table = t})

(* -------------------------- the fixture emitter ------------------------ *)
\* DatabaseWrapper.total_data_lines
RECURSIVE row_total(_)
row_total(ms) ==
    IF ms = <<>> THEN 0 ELSE rowCount[Head(ms)] + row_total(Tail(ms))

total_data_lines == row_total(models)

\* a progress tuple (remaining, message) an emitter yields
ProgressItem(n, t) ==
    [kind |-> "progress", remaining |-> n, model |-> t,
     open |-> FALSE, line |-> <<>>, close |-> FALSE]

\* a text line of output_fixture: ' ['[open] + line + ('', ']')[close],
\* line being a line of Model.output_fixture
FixtureLine(t, open, line, close) ==
    [kind |-> "line", remaining |-> 0, model |-> t,
     open |-> open, line |-> <<line>>, close |-> close]

\* DatabaseWrapper.output_fixture from the i-th entry of forloop(self.models)
\* on, total being the counter's value there: for each line of the model a
\* progress tuple, total -= 1, and the line with '[' in front when it is the
\* first line of the first model and ']' behind when it is the last line of
\* the last model
RECURSIVE fixture_items(_, _)
fixture_items(i, total) ==
    IF i > Len(models) THEN <<>>
    ELSE LET m == forloop(models)[i]
             lines == forloop(model_output_fixture(m.item))
         IN  [k \in 1..(2 * Len(lines)) |->
                 LET l == lines[(k + 1) \div 2]
                 IN  IF k % 2 = 1
                     THEN ProgressItem(total - (k - 1) \div 2, m.item)
                     ELSE FixtureLine(m.item,
                                      m.first /\ l.first,
                                      l.item,
                                      m.last /\ l.last)]
             \o fixture_items(i + 1, total - Len(lines))

output_fixture == fixture_items(1, total_data_lines)

\* the models whose output_fixture generator has run when n of the items
\* are out: the ones up to the model of the n-th item, all of them at the
\* end
StartedModels(items, n) ==
    IF n > Len(items) THEN Range(models)
    ELSE {models[j] : j \in 1..Pos(models, items[n].model)}

\* the models whose output_fixture generator starts between the (n-1)-th
\* and the n-th item, in the order of models
NewlyStarted(items, n) ==
    LET before == IF n = 1 THEN {} ELSE StartedModels(items, n - 1)
    IN  SelectSeq(models, LAMBDA m : m \in StartedModels(items, n) \ before)

\* starting Model.output_fixture for each of ms: get_rows, then the two
\* forloops (one over the rows, one over the lines) each read one item
\* ahead, so three rows are asked for before the first line comes out
RECURSIVE start_fixture_passes(_, _)
start_fixture_passes(s, ms) ==
    IF ms = <<>> THEN s
    ELSE start_fixture_passes(
             next_rows(get_rows(s, Head(ms)), Len(s.passes) + 1, 3), Tail(ms))

\* one more row is asked for before a later line of a model already
\* started comes out
read_ahead(s, items, n) ==
    IF /\ n > 1
       /\ n <= Len(items)
       /\ items[n].kind = "progress"
       /\ items[n].model \in StartedModels(items, n - 1)
    THEN next_row(s, LastPass(s, items[n].model))
    ELSE s

\* the reads between the (n-1)-th and the n-th item of output_fixture (the
\* end of the generator when n is past the last item)
fixture_reads(s, items, n) ==
    read_ahead(start_fixture_passes(s, NewlyStarted(items, n)), items, n)

\* write_to_file_or_stdout: lines = line_generator()
StartFixture ==
    /\ exc = ""
    /\ pc = "idle"
    /\ position = 0
    /\ pc' = "fixture"
    /\ out' = <<>>
    /\ UNCHANGED <<env, fieldsCache, indexVars, orderVars, position, rowVars,
                   exc>>

\* the generator yielding items runs to its next yield
YieldFixtureItem(items) ==
    /\ exc = ""
    /\ pc = "fixture"
    /\ stack = <<>>
    /\ Len(out) < Len(items)
    /\ out' = Append(out, items[Len(out) + 1])
    /\ fieldsCache' = Memoized(fieldsCache, StartedModels(items, Len(out) + 1))
    /\ SetRows(fixture_reads(Rows, items, Len(out) + 1))
    /\ UNCHANGED <<env, indexVars, orderVars, pc, position, exc>>

\* "for item in lines": the generator runs to its next yield
FixtureYield == YieldFixtureItem(output_fixture)

\* the generator that yielded items is exhausted: write_to_file_or_stdout
\* returns, to the loop of run_conversion when that called it
EndFixture(items) ==
    /\ exc = ""
    /\ pc = "fixture"
    /\ Len(out) = Len(items)
    /\ pc' = IF position = 0 THEN "done" ELSE "idle"
    /\ fieldsCache' = Memoized(fieldsCache, Range(models))
    /\ SetRows(fixture_reads(Rows, items, Len(out) + 1))
    /\ UNCHANGED <<env, indexVars, orderVars, out, position, exc>>

\* the generator is exhausted
FixtureEnd == EndFixture(output_fixture)

InitFixture ==
    /\ columns = [t \in Tables |-> StdColumns]
    /\ indexes = [t \in Tables |-> StdIndexes]
    /\ declared = {}
    /\ hidden \in SUBSET Hideable
    /\ nameMap = "verbatim"
    /\ rowCount \in [Tables -> 0..MaxRows]
    /\ coltype = [t \in Tables |-> [c \in Range(columns[t]) |-> StdType]]
    /\ DefaultOptions
    /\ selected = {}
    /\ Fresh
    /\ fieldsCache = [t \in Tables |-> <<>>]
    /\ relCache = <<>>
    /\ builds = 0
    /\ queries = <<>>
    /\ orderedCache = <<>>
    /\ done = {}
    /\ stack = <<>>
    /\ yielded = <<>>
    /\ out = <<>>
    /\ pc = "idle"
    /\ exc = ""

NextFixture ==
    \/ StartFixture
    \/ FixtureYield
    \/ FixtureEnd

SpecFixture == InitFixture /\ [][NextFixture]_vars

(* ------------------------- the text of the emitters -------------------- *)
\* a text line an emitter yields: what it is, the model it is about (None
\* for the imports), and the parts of its text
TextItem(what, t, arg) ==
    [kind |-> "line", remaining |-> 0, model |-> t, open |-> FALSE,
     line |-> <<[what |-> what, arg |-> arg]>>, close |-> FALSE]

\* the sequences of a sequence, one after the other
RECURSIVE Concat(_)
Concat(ss) == IF ss = <<>> THEN <<>> ELSE Head(ss) \o Concat(Tail(ss))

\* a set as a sequence, in some fixed order
SetToSeq(S) == CHOOSE q \in Orders(S) : TRUE

\* FieldBase.as_python: the field's opening line, then one line per
\* attribute (closed by ')' on the last); PrimaryKeyField.as_python is ()
field_as_python(forward, f) ==
    IF f.synth THEN <<>>
    ELSE LET fl == forloop(attrs(forward, f))
         IN  <<TextItem("field", f.model,
                        <<name(f), field_class(forward, f)>>)>>
             \o [i \in 1..Len(fl) |-> TextItem("attr", f.model, <<fl[i]>>)]

\* Model.as_python
as_python(forward, t) ==
    LET fs == fields(t)
        mci == multicolumn_indexes(t)
    IN  <<TextItem("blank", t, <<>>),
          TextItem("class", t, <<model_name(t)>>)>>
        \o Concat([i \in 1..Len(fs) |-> field_as_python(forward, fs[i])])
        \o <<TextItem("blank", t, <<>>), TextItem("Meta", t, <<>>)>>
        \o (IF keep_table_names \/ schema # None
            THEN <<TextItem("db_table", t, <<meta_db_table(t)>>)>>
            ELSE <<>>)
        \o (IF mci # <<>>
            THEN <<TextItem("unique_together", t, <<>>)>>
                 \o [i \in 1..Len(mci) |->
                        TextItem("unique_columns", t,
                            [k \in 1..Len(mci[i].columns) |->
                                name(get_field_by_column(
                                         t, mci[i].columns[k]))])]
                 \o <<TextItem("unique_together_end", t, <<>>)>>
            ELSE <<>>)
        \o <<TextItem("verbose_name", t, <<model_name(t)>>),
             TextItem("verbose_name_plural", t, <<model_name(t)>>)>>

\* Model.foreign_key_fields
foreign_key_fields(forward, t) ==
    {r.to_field : r \in foreign_keys(forward, t)}

\* Field.inline_class_name, as its parts
inline_class_name(forward, f) ==
    IF Cardinality(foreign_key_fields(forward, f.model)) > 1
    THEN <<model_name(f.model), name(f), "Inline">>
    ELSE <<model_name(f.model), "Inline">>

\* Model.inlines_as_python: four lines per foreign-key field when there
\* are several, else three
inlines_as_python(forward, t) ==
    LET fs == SetToSeq(foreign_key_fields(forward, t))
    IN  Concat([i \in 1..Len(fs) |->
            <<TextItem("blank", t, <<>>),
              TextItem("inline_class", t, inline_class_name(forward, fs[i])),
              TextItem("inline_model", t, <<model_name(t)>>)>>
            \o (IF Len(fs) > 1
                THEN <<TextItem("fk_name", t, <<name(fs[i])>>)>>
                ELSE <<>>)])

\* list(Model.reverse_foreign_keys) read from the reverse dict
reverse_foreign_keys(reverse, t) ==
    UNION {reverse[f] : f \in RealFields(t) \cap DOMAIN reverse}

\* Model.output_admin: the registration, list_display closed by ')' when
\* there are no inlines, then the inlines on one line or one per line
\* behind an opening line
model_output_admin(forward, reverse, t) ==
    LET rs == SetToSeq(reverse_foreign_keys(reverse, t))
        inlines == forloop([i \in 1..Len(rs) |->
                               inline_class_name(forward, rs[i].to_field)])
        fs == fields(t)
    IN  <<TextItem("blank", t, <<>>),
          TextItem("register", t, <<>>),
          TextItem("register_model", t, <<model_name(t)>>),
          TextItem("list_display", t, [i \in 1..Len(fs) |-> name(fs[i])])>>
        \o Concat([i \in 1..Len(inlines) |->
               IF inlines[i].first /\ inlines[i].last
               THEN <<TextItem("inlines", t, inlines[i].item)>>
               ELSE (IF inlines[i].first
                     THEN <<TextItem("inlines_open", t, <<>>)>>
                     ELSE <<>>)
                    \o <<TextItem("inline", t, inlines[i].item)>>])

\* the token of one value in a COPY line: java2pgcopy(table, column, value)
PgToken(t, c, v) == <<"pgcopy", c, v>>

\* Model.output_postgresql: the COPY header with the source column names,
\* one line per row with a token per value in the order of the row, the
\* end-of-data marker and an empty line
model_output_postgresql(t) ==
    <<TextItem("copy", t, <<pg_table(t), columns[t]>>)>>
    \o [r \in 1..rowCount[t] |->
           TextItem("row", t,
               [i \in 1..Len(columns[t]) |->
                   PgToken(t, columns[t][i], Cell(t, r - 1, columns[t][i]))])]
    \o <<TextItem("end", t, <<>>), TextItem("blank", t, <<>>)>>

\* Model.delete_as_pg
delete_as_pg(t) == TextItem("delete", t, <<pg_table(t)>>)

(* ------------------------------ the emitters --------------------------- *)
\* DatabaseWrapper.output_models over the list ordered_models gave
output_models(ordered, forward) ==
    <<ProgressItem(Len(models) + 2, None),
      TextItem("import", None, <<>>),
      TextItem("import", None, <<>>)>>
    \o Concat([i \in 1..Len(ordered) |->
           <<ProgressItem(Len(models) - (i - 1), ordered[i])>>
           \o as_python(forward, ordered[i])])

\* DatabaseWrapper.output_admin
output_admin(ordered, forward, reverse) ==
    LET n == Len(models)
    IN  <<ProgressItem(2 * n + 2, None),
          TextItem("import", None, <<>>),
          TextItem("import_models", None, <<app_name>>)>>
        \o Concat([i \in 1..Len(ordered) |->
               <<ProgressItem(2 * n + 1, ordered[i]),
                 TextItem("import_model", ordered[i],
                          <<model_name(ordered[i])>>)>>])
        \o <<TextItem("import_models_end", None, <<>>)>>
        \o Concat([i \in 1..Len(ordered) |->
               <<ProgressItem(2 * n - (i - 1), ordered[i])>>
               \o inlines_as_python(forward, ordered[i])])
        \o Concat([i \in 1..Len(ordered) |->
               <<ProgressItem(n - (i - 1), ordered[i])>>
               \o model_output_admin(forward, reverse, ordered[i])])

\* the second loop of output_postgresql from the i-th model on, counter
\* being the counter's value there: a progress tuple and counter -= 1
\* before every line of the model
RECURSIVE copy_items(_, _, _)
copy_items(ordered, i, counter) ==
    IF i > Len(ordered) THEN <<>>
    ELSE LET lines == model_output_postgresql(ordered[i])
         IN  [k \in 1..(2 * Len(lines)) |->
                 IF k % 2 = 1
                 THEN ProgressItem(counter - (k - 1) \div 2, ordered[i])
                 ELSE lines[k \div 2]]
             \o copy_items(ordered, i + 1, counter - Len(lines))

\* DatabaseWrapper.output_postgresql: a DELETE per model of
\* reversed(ordered_models), then the COPY lines per model
output_postgresql(ordered) ==
    LET counter == Len(models) + total_data_lines
        n == Len(ordered)
    IN  [k \in 1..(2 * n) |->
            LET m == ordered[n + 1 - (k + 1) \div 2]
            IN  IF k % 2 = 1
                THEN ProgressItem(counter - (k - 1) \div 2, m)
                ELSE delete_as_pg(m)]
        \o copy_items(ordered, 1, counter - n)

\* the reads before the n-th item of the output of output_postgresql, a
\* progress tuple in front of the line next: Model.output_postgresql calls
\* get_rows when it is resumed after the COPY header (the line before),
\* and asks for one row each time it is resumed until None comes
copy_reads(s, t, before, next) ==
    IF next.what \in {"row", "end"}
    THEN IF before.what = "copy"
         THEN next_row(get_rows(s, t), Len(s.passes) + 1)
         ELSE next_row(s, LastPass(s, t))
    ELSE s

\* the reads between the (n-1)-th and the n-th item of items
postgresql_reads(s, items, n) ==
    IF n > 1 /\ n < Len(items) /\ items[n].kind = "progress"
    THEN copy_reads(s, items[n].model, items[n - 1].line[1],
                    items[n + 1].line[1])
    ELSE s

(* ---------------------------- run_conversion --------------------------- *)
\* the list the running emitter got from ordered_models, <<>> before
Ordered == IF orderedCache = <<>> THEN <<>> ELSE orderedCache[1]

\* the forward and the reverse dict, empty before the index is built
Forward == IF relCache = <<>> THEN <<>> ELSE relCache[1].forward

Reverse == IF relCache = <<>> THEN <<>> ELSE relCache[1].reverse

\* how many items output_models, output_admin and output_postgresql yield
\* before they read ordered_models (output_fixture never reads it)
Preamble(e) ==
    CASE e = "models" -> 3
      [] e = "admin" -> 3
      [] e = "postgresql" -> 0

\* the loop of run_conversion takes the next output type: continue when
\* its file option is None, else write_to_file_or_stdout creates the
\* generator
RunNextOutput ==
    /\ exc = ""
    /\ pc = "idle"
    /\ position < Len(OUTPUT_TYPES)
    /\ position' = position + 1
    /\ IF OUTPUT_TYPES[position + 1] \in selected
       THEN pc' = OUTPUT_TYPES[position + 1] /\ out' = <<>>
       ELSE UNCHANGED <<pc, out>>
    /\ UNCHANGED <<env, fieldsCache, indexVars, orderVars, rowVars, exc>>

\* the loop of run_conversion is over
RunFinish ==
    /\ exc = ""
    /\ pc = "idle"
    /\ position = Len(OUTPUT_TYPES)
    /\ pc' = "done"
    /\ UNCHANGED <<env, fieldsCache, indexVars, orderVars, out, position,
                   rowVars, exc>>

\* the running generator reads self.ordered_models for the first time
RunOrderedModels ==
    /\ pc \in {"models", "admin", "postgresql"}
    /\ Len(out) >= Preamble(pc)
    /\ orderedCache = <<>>
    /\ ReadOrderedModels

\* the generator of output type e can go on to its next yield or to its
\* end: no traversal is under way, and the list is there when it is needed
CanResume(e) ==
    /\ exc = ""
    /\ pc = e
    /\ stack = <<>>
    /\ Len(out) < Preamble(e) \/ orderedCache # <<>>

\* the next of items comes out
YieldItem(items) ==
    /\ Len(out) < Len(items)
    /\ out' = Append(out, items[Len(out) + 1])

\* output_models runs to its next yield
ModelsYield ==
    /\ CanResume("models")
    /\ YieldItem(output_models(Ordered, Forward))
    /\ UNCHANGED <<env, fieldsCache, indexVars, orderVars, pc, position,
                   rowVars, exc>>

\* before the list_display line of a model, Model.output_admin looks every
\* field of the model up in the reverse dict
AdminLookups(item) ==
    IF item.kind = "line" /\ item.line[1].what = "list_display"
    THEN relCache' = <<[relCache[1] EXCEPT
                         !.reverse = Lookup(@, RealFields(item.model))]>>
    ELSE UNCHANGED relCache

\* output_admin runs to its next yield
AdminYield ==
    /\ CanResume("admin")
    /\ YieldItem(output_admin(Ordered, Forward, Reverse))
    /\ AdminLookups(out'[Len(out')])
    /\ UNCHANGED <<env, fieldsCache, builds, queries, orderVars, pc, position,
                   rowVars, exc>>

\* the next of items comes out of output_postgresql
YieldCopyItem(items) ==
    /\ YieldItem(items)
    /\ SetRows(postgresql_reads(Rows, items, Len(out) + 1))

\* output_postgresql runs to its next yield
PostgresqlYield ==
    /\ CanResume("postgresql")
    /\ YieldCopyItem(output_postgresql(Ordered))
    /\ UNCHANGED <<env, fieldsCache, indexVars, orderVars, pc, position, exc>>

\* the generator that yielded items is exhausted: write_to_file_or_stdout
\* returns to the loop
EndEmitter(e, items) ==
    /\ CanResume(e)
    /\ Len(out) = Len(items)
    /\ pc' = "idle"
    /\ UNCHANGED <<env, fieldsCache, indexVars, orderVars, out, position,
                   rowVars, exc>>

ModelsEnd == EndEmitter("models", output_models(Ordered, Forward))

AdminEnd == EndEmitter("admin", output_admin(Ordered, Forward, Reverse))

PostgresqlEnd == EndEmitter("postgresql", output_postgresql(Ordered))

NextRun ==
    \/ RunNextOutput
    \/ RunOrderedModels
    \/ OrderSkip
    \/ OrderVisit
    \/ OrderReturn
    \/ ModelsYield
    \/ ModelsEnd
    \/ AdminYield
    \/ AdminEnd
    \/ FixtureYield
    \/ FixtureEnd
    \/ PostgresqlYield
    \/ PostgresqlEnd
    \/ RunFinish

\* the caches and the run before anything was read
Unread ==
    /\ fieldsCache = [t \in Tables |-> <<>>]
    /\ relCache = <<>>
    /\ builds = 0
    /\ queries = <<>>
    /\ orderedCache = <<>>
    /\ done = {}
    /\ stack = <<>>
    /\ yielded = <<>>
    /\ out = <<>>
    /\ pc = "idle"
    /\ exc = ""
    /\ Fresh

\* the relationships of the files of the runs whose rows are varied: none,
\* or Reporter referencing Article, the table after it
RunRelPool ==
    {[toTable |-> "Reporter", toColumn |-> "reporter_id",
      fromTable |-> "Article", fromColumn |-> "id"]}

\* a run of run_conversion with any of the outputs selected, over tables
\* with any number of rows
InitRun ==
    /\ columns = [t \in Tables |-> StdColumns]
    /\ indexes = [t \in Tables |-> StdIndexes]
    /\ declared \in {d \in SUBSET RunRelPool : Cardinality(d) <= MaxRels}
    /\ hidden = {}
    /\ nameMap = "verbatim"
    /\ rowCount \in [Tables -> 0..MaxRows]
    /\ coltype = [t \in Tables |-> [c \in Range(columns[t]) |-> StdType]]
    /\ DefaultOptions
    /\ selected \in SUBSET Range(OUTPUT_TYPES)
    /\ Unread

SpecRun == InitRun /\ [][NextRun]_vars

\* runs over any declared relationships, every table with one row, with
\* the data outputs or all outputs selected
InitData ==
    /\ columns = [t \in Tables |-> StdColumns]
    /\ indexes = [t \in Tables |-> StdIndexes]
    /\ declared \in {d \in SUBSET RelPool : Cardinality(d) <= MaxRels}
    /\ hidden \in SUBSET Hideable
    /\ nameMap = "verbatim"
    /\ rowCount = [t \in Tables |-> 1]
    /\ coltype = [t \in Tables |-> [c \in Range(columns[t]) |-> StdType]]
    /\ DefaultOptions
    /\ selected \in {Range(OUTPUT_TYPES), {"fixture", "postgresql"}}
    /\ Unread

SpecData == InitData /\ [][NextRun]_vars

\* the application names and schemas a wrapper is built with
AppNames == {"myapp", "news"}

Schemas == {None, "public"}

\* runs of wrappers built with any application name, schema and
\* keep_table_names
InitNames ==
    /\ columns = [t \in Tables |-> StdColumns]
    /\ indexes = [t \in Tables |-> StdIndexes]
    /\ declared \in SUBSET RunRelPool
    /\ hidden \in SUBSET Hideable
    /\ nameMap = "verbatim"
    /\ rowCount = [t \in Tables |-> 1]
    /\ coltype = [t \in Tables |-> [c \in Range(columns[t]) |-> StdType]]
    /\ app_name \in AppNames
    /\ schema \in Schemas
    /\ keep_table_names \in BOOLEAN
    /\ custom_conversion = "identity"
    /\ selected \in SUBSET Range(OUTPUT_TYPES)
    /\ Unread

SpecNames == InitNames /\ [][NextRun]_vars

(* ----------------------- claims on the fixture emitter ----------------- *)
TextLines(items) == SelectSeq(items, LAMBDA x : x.kind = "line")

\* C9: the text lines of output_fixture form one array: the first line
\* starts with '[', the last line ends with ']', and every record but the
\* last of the whole output is followed by exactly one ','.
C9_FixtureIsOneArray ==
    pc = "done" =>
        LET ls == TextLines(out)
        IN  \A i \in 1..Len(ls) :
                /\ ls[i].open <=> (i = 1)
                /\ ls[i].close <=> (i = Len(ls))
                /\ ls[i].line[1].comma <=> (i < Len(ls))

(* -------------------- claims on the relationship index ----------------- *)
\* the declared relationships whose two tables differ
BetweenTwoTables == {ar \in declared : ar.toTable # ar.fromTable}

\* C4: after get_relationships, every relationship declared between two
\* tables with leading child column c and parent column p has a forward
\* entry keyed by the Field of c whose from_field is the Field of p, and is
\* in the reverse set keyed by the Field of p; the forward map has no other
\* keys, the reverse sets no other members, and the reverse sets hold
\* exactly the values of the forward map.
C4_ForwardAndReverseAgree ==
    relCache # <<>> =>
        LET forward == relCache[1].forward
            reverse == relCache[1].reverse
            want == {Relationship(ar) : ar \in BetweenTwoTables}
        IN  /\ \A r \in want :
                 /\ r.to_field \in DOMAIN forward
                 /\ forward[r.to_field].from_field = r.from_field
                 /\ r.from_field \in DOMAIN reverse
                 /\ \E x \in reverse[r.from_field] : x.to_field = r.to_field
            /\ DOMAIN forward = {r.to_field : r \in want}
            /\ UNION {reverse[k] : k \in DOMAIN reverse} \subseteq want
            /\ UNION {reverse[k] : k \in DOMAIN reverse}
                 = {forward[k] : k \in DOMAIN forward}

\* the unordered pairs of different tables
TablePairs == {{a, b} : a, b \in Tables} \ {{a} : a \in Tables}

\* C5: _add_relationships, started on the full table-name list, queries
\* every pair of tables exactly once, and its result holds every declared
\* relationship, also one whose child and parent are the same table.
C5_GathersEveryRelationship ==
    (builds > 0 /\ exc = "") =>
        /\ \A pr \in TablePairs :
             Cardinality({k \in 1..Len(queries) :
                            {queries[k][1], queries[k][2]} = pr}) = 1
        /\ Len(queries) = Cardinality(TablePairs)
        /\ relCache[1].all = {Relationship(ar) : ar \in declared}

\* C6: over any sequence of accesses the index is built once, and once
\* built the forward and the reverse map keep exactly the keys and values
\* they had (a lookup for a field with no relationship adds nothing).
C6_IndexBuiltOnceAndFrozen ==
    [][/\ builds' <= 1
       /\ relCache # <<>> => relCache' = relCache]_vars

(* --------------------- claims on the dependency order ------------------ *)
\* child table -> parent table, for every declared relationship
Edges == {<<ar.toTable, ar.fromTable>> : ar \in declared}

\* R with the pairs its chains of up to n more steps connect
RECURSIVE Closure(_, _)
Closure(R, n) ==
    IF n = 0 THEN R
    ELSE Closure(R \cup {<<x[1][1], x[2][2]>> :
                            x \in {y \in R \X R : y[1][2] = y[2][1]}},
                 n - 1)

Acyclic ==
    \A t \in Tables : <<t, t>> \notin Closure(Edges, Cardinality(Tables))

\* C1: for every acyclic set of declared relationships, in ordered_models
\* the Model of the parent (from) field of every Relationship the index
\* records is strictly before the Model of its child (to) field.
C1_ParentsBeforeChildren ==
    (orderedCache # <<>> /\ Acyclic) =>
        \A r \in relCache[1].all :
            /\ r.from_field.model \in Range(orderedCache[1])
            /\ r.to_field.model \in Range(orderedCache[1])
            /\ Pos(orderedCache[1], r.from_field.model)
                 < Pos(orderedCache[1], r.to_field.model)

\* C7: a table that table2model_name maps to None has no Model in models
\* or ordered_models and is no dependency target, and building the index
\* and the order completes without error whatever relationships are
\* declared.
C7_HiddenTablesSkipped ==
    /\ hidden \cap Range(models) = {}
    /\ orderedCache # <<>> => hidden \cap Range(orderedCache[1]) = {}
    /\ relCache # <<>> =>
         \A t \in Range(models) :
             hidden \cap related_models(relCache[1].forward, t) = {}
    /\ exc = ""

IsEveryModelOnce(list) ==
    /\ Len(list) = Len(models)
    /\ Range(list) = Range(models)

RECURSIVE PendingModels(_)
PendingModels(st) ==
    IF st = <<>> THEN 0 ELSE Len(Head(st).iter) + PendingModels(Tail(st))

\* what a traversal has left to do: the models not yet in done (each can
\* start one generator over at most Len(models) related models), the models
\* the active generators have still to look at, and the active generators
Variant ==
    (Len(models) + 1) * Cardinality(Range(models) \ done)
        + PendingModels(stack) + Len(stack)

\* C8: for every foreign-key graph over the Models, cyclic ones included,
\* the traversal computing ordered_models terminates (every step of a
\* running traversal lowers Variant, a natural number; OrderSkip, OrderVisit
\* and OrderReturn between them cover every state of a running traversal)
\* and its output holds every Model of models exactly once.
C8_TraversalEndsWithEveryModelOnce ==
    [][/\ stack # <<>> => Variant' < Variant
       /\ Variant' >= 0
       /\ orderedCache' # <<>> => IsEveryModelOnce(orderedCache'[1])]_vars

\* a finished traversal of a graph with a cycle A -> B -> A and a Model no
\* relationship touches
C8_Witness ==
    /\ orderedCache # <<>>
    /\ stack = <<>>
    /\ \E a, b \in Range(models) :
         /\ a # b
         /\ <<a, b>> \in Edges /\ <<b, a>> \in Edges
         /\ \E c \in Range(models) :
              \A e \in Edges : e[1] # c /\ e[2] # c
    /\ Len(orderedCache[1]) = Len(TableNames)

(* ---------------------- claims on the schema mapping ------------------- *)
\* the table has a single-column index flagged as the primary key
HasSingleColumnPrimaryKey(t) ==
    \E k \in 1..Len(indexes[t]) :
        Len(indexes[t][k].columns) = 1 /\ indexes[t][k].primaryKey

\* the column that index covers
PrimaryKeyColumn(t) ==
    LET k == CHOOSE k \in 1..Len(indexes[t]) :
                 Len(indexes[t][k].columns) = 1 /\ indexes[t][k].primaryKey
    IN  indexes[t][k].columns[1]

\* C2: for every source table, whatever its number of columns and indexes,
\* Model.fields is produced without error and holds exactly one field with
\* primary_key true, at position 0.
C2_FieldsOnePrimaryKeyFirst ==
    /\ exc = ""
    /\ \A t \in Tables : fieldsCache[t] # <<>> =>
          LET fs == fieldsCache[t][1]
          IN  /\ fs # <<>>
              /\ primary_key(fs[1])
              /\ Cardinality({i \in 1..Len(fs) : primary_key(fs[i])}) = 1

\* C3: Model.fields has one field per source column when some column
\* carries a single-column primary-key index (that column's field first),
\* and one more otherwise (a synthesized 'id' first); the other fields keep
\* the source column order.
C3_FieldsPerColumn ==
    \A t \in Tables : fieldsCache[t] # <<>> =>
        LET fs == fieldsCache[t][1]
            rest == SubSeq(fs, 2, Len(fs))
        IN  IF HasSingleColumnPrimaryKey(t)
            THEN /\ Len(fs) = Len(columns[t])
                 /\ fs[1] = Field(t, PrimaryKeyColumn(t))
                 /\ rest = SelectSeq(
                        [i \in 1..Len(columns[t]) |-> Field(t, columns[t][i])],
                        LAMBDA f : f.column # PrimaryKeyColumn(t))
            ELSE /\ Len(fs) = Len(columns[t]) + 1
                 /\ fs[1].synth /\ name(fs[1]) = "id"
                 /\ rest = [i \in 1..Len(columns[t]) |->
                               Field(t, columns[t][i])]

\* C10: each record of Model.output_fixture has a 'fields' entry for every
\* column except the primary key's backing column, keyed by the
\* destination field name.
C10_FixtureFieldsKeys ==
    \A i \in 1..Len(out) :
        LET t == VariedTable
            pkf == model_primary_key(t)
            cols == {c \in Range(columns[t]) : pkf.synth \/ c # pkf.column}
        IN  DOMAIN out[i].data.fields = {name(Field(t, c)) : c \in cols}

(* ------------------------- claims on run_conversion -------------------- *)
\* out holds what the generator of output type e has yielded, in a run that
\* no exception has ended
Holds(e) ==
    /\ exc = ""
    /\ position > 0
    /\ OUTPUT_TYPES[position] = e
    /\ e \in selected

\* C11: the records of the fixture emitter appear Model by Model in the
\* order of ordered_models, so the records of a parent table precede the
\* records of the children that reference it (for acyclic relationships).
C11_FixtureInDependencyOrder ==
    Holds("fixture") =>
        LET ls == TextLines(out)
        IN  \A i, j \in 1..Len(ls) : i < j =>
                /\ orderedCache # <<>> =>
                       Pos(orderedCache[1], ls[i].model)
                           <= Pos(orderedCache[1], ls[j].model)
                /\ Acyclic => <<ls[i].model, ls[j].model>> \notin Edges

\* the models the lines of seq are about, in order
ModelsOf(seq) == [i \in 1..Len(seq) |-> seq[i].model]

\* the lines of seq that are what
LinesThat(seq, what) == SelectSeq(seq, LAMBDA x : x.line[1].what = what)

\* the kinds of the lines of the COPY block of a table with n rows, and the
\* kinds of the lines of the blocks of the tables ts one after the other
BlockKinds(n) == <<"copy">> \o [r \in 1..n |-> "row"] \o <<"end">>

RECURSIVE BlocksKinds(_)
BlocksKinds(ts) ==
    IF ts = <<>> THEN <<>>
    ELSE BlockKinds(rowCount[Head(ts)]) \o BlocksKinds(Tail(ts))

\* C12: output_postgresql emits one DELETE per Model, all before the first
\* COPY header and each referencing table before the table it references,
\* then one COPY block per Model with each referenced table before the
\* tables referencing it; a block is the header, one line per row with one
\* token per source column in source order, and the end-of-data marker
\* (the empty line behind the marker is left aside).
C12_DeletesThenCopyBlocks ==
    (Holds("postgresql") /\ pc # "postgresql") =>
        LET ls == SelectSeq(TextLines(out),
                            LAMBDA x : x.line[1].what # "blank")
            dels == LinesThat(ls, "delete")
            copies == SelectSeq(ls, LAMBDA x : x.line[1].what # "delete")
            heads == LinesThat(ls, "copy")
        IN  /\ ls = dels \o copies
            /\ IsEveryModelOnce(ModelsOf(dels))
            /\ IsEveryModelOnce(ModelsOf(heads))
            /\ [i \in 1..Len(copies) |-> copies[i].line[1].what]
                   = BlocksKinds(ModelsOf(heads))
            /\ \A i \in 1..Len(copies) :
                   /\ copies[i].line[1].what # "copy" =>
                          copies[i].model = copies[i - 1].model
                   /\ copies[i].line[1].what = "row" =>
                          [k \in 1..Len(copies[i].line[1].arg) |->
                              copies[i].line[1].arg[k][2]]
                              = columns[copies[i].model]
            /\ Acyclic => \A e \in Edges :
                   /\ Pos(ModelsOf(dels), e[1]) < Pos(ModelsOf(dels), e[2])
                   /\ Pos(ModelsOf(heads), e[2]) < Pos(ModelsOf(heads), e[1])

(* --------------------- ValueConversion (lines 47-91) ------------------- *)
\* a value: the name of its class and its text.  The driver hands over
\* Java objects (java.lang.Integer, java.lang.Boolean, java.util.Date),
\* unicode strings, None for null, and other values as they are.
Value(cls, repr) == [cls |-> cls, repr |-> repr]

PyNone == Value("NoneType", "None")

PyBool(b) == Value("bool", IF b THEN "True" ELSE "False")

\* the column values a row can hold
JavaValues ==
    {Value("java.lang.Integer", "23"), Value("java.lang.Short", "0"),
     Value("java.lang.Boolean", "true"), Value("java.lang.Boolean", "false"),
     Value("unicode", "a\r\nb"), Value("unicode", "a\tb"),
     Value("unicode", ""),
     Value("java.util.Date", "Thu Dec 10 13:59:15 EET 2009"),
     Value("float", "1.5"), PyNone}

\* value.replace('\r\n', r'\r').replace('\t', r'\t') on the strings above
escaped(s) ==
    CASE s = "a\r\nb" -> "a\\rb"
      [] s = "a\tb" -> "a\\tb"
      [] OTHER -> s

\* '%s-%02d-%s %s' % (Y, month, d, HMS) from value.toString().split()
date_text(s) ==
    CASE s = "Thu Dec 10 13:59:15 EET 2009" -> "2009-12-10 13:59:15"
      [] OTHER -> s

\* the custom conversions a wrapper is built with: the default
\* lambda t, c, v: v, and functions that turn booleans into integers, empty
\* strings into None, integers into booleans, and False into None
Conversions ==
    {"identity", "bool_to_int", "empty_to_null", "int_to_bool",
     "false_to_null"}

\* self.custom_conversion(table_name, column_name, value)
apply_custom_conversion(t, c, v) ==
    CASE custom_conversion = "bool_to_int" /\ v.cls = "bool" ->
             Value("int", IF v = PyBool(TRUE) THEN "1" ELSE "0")
      [] custom_conversion = "empty_to_null" /\ v = Value("unicode", "") ->
             PyNone
      [] custom_conversion = "int_to_bool" /\ v.cls = "int" ->
             PyBool(v.repr # "0")
      [] custom_conversion = "false_to_null" /\ v = PyBool(FALSE) -> PyNone
      [] OTHER -> v

\* the value java2python hands to the custom conversion
unwrapped(value) ==
    CASE value.cls \in {"java.lang.Integer", "java.lang.Short"} ->
             Value("int", value.repr)
      [] value.cls = "unicode" -> Value("unicode", escaped(value.repr))
      [] value.cls = "java.lang.Boolean" -> PyBool(value.repr = "true")
      [] value.cls = "java.util.Date" -> Value("str", date_text(value.repr))
      [] OTHER -> value

\* ValueConversion.java2python
java2python(t, c, value) == apply_custom_conversion(t, c, unwrapped(value))

\* ValueConversion.java2json
java2json(t, c, value) ==
    LET python_value == java2python(t, c, value)
    IN  IF python_value = PyNone THEN Value("str", "null")
        ELSE python_value

\* java2pgcopy without the isinstance(python_value, bool) branch
java2pgcopy_unicode_only(t, c, value) ==
    LET python_value == java2python(t, c, value)
    IN  IF python_value = PyNone THEN Value("str", "\\N")
        ELSE Value("str", python_value.repr)

\* ValueConversion.java2pgcopy: 'ft'[python_value] for a bool, r'\N' for
\* None, else unicode(python_value).encode('UTF-8')
java2pgcopy(t, c, value) ==
    LET python_value == java2python(t, c, value)
    IN  IF python_value.cls = "bool"
        THEN Value("str", IF python_value = PyBool(TRUE) THEN "t" ELSE "f")
        ELSE IF python_value = PyNone THEN Value("str", "\\N")
        ELSE Value("str", python_value.repr)

\* one call of a conversion method and what it returned
Conversion(fn, value, result) ==
    [fn |-> fn, value |-> value, result |-> result]

\* a caller converts the value of column c of table t
CallJava2Python(t, c) ==
    /\ Len(out) < MaxConversions
    /\ \E v \in JavaValues :
           out' = Append(out, Conversion("java2python", v,
                                         java2python(t, c, v)))
    /\ UNCHANGED <<env, fieldsCache, indexVars, orderVars, pc, position,
                   rowVars, exc>>

CallJava2Json(t, c) ==
    /\ Len(out) < MaxConversions
    /\ \E v \in JavaValues :
           out' = Append(out, Conversion("java2json", v, java2json(t, c, v)))
    /\ UNCHANGED <<env, fieldsCache, indexVars, orderVars, pc, position,
                   rowVars, exc>>

CallJava2Pgcopy(t, c) ==
    /\ Len(out) < MaxConversions
    /\ \E v \in JavaValues :
           out' = Append(out, Conversion("java2pgcopy", v,
                                         java2pgcopy(t, c, v)))
    /\ UNCHANGED <<env, fieldsCache, indexVars, orderVars, pc, position,
                   rowVars, exc>>

\* a ValueConversion built with any of the custom conversions
InitValue ==
    /\ columns = [t \in Tables |-> StdColumns]
    /\ indexes = [t \in Tables |-> StdIndexes]
    /\ declared = {}
    /\ hidden = {}
    /\ nameMap = "verbatim"
    /\ rowCount = [t \in Tables |-> 0]
    /\ coltype = [t \in Tables |-> [c \in Range(columns[t]) |-> StdType]]
    /\ app_name = "myapp"
    /\ schema = None
    /\ keep_table_names = FALSE
    /\ custom_conversion \in Conversions
    /\ selected = {}
    /\ Unread

NextValue ==
    \/ CallJava2Python(VariedTable, "id")
    \/ CallJava2Json(VariedTable, "id")
    \/ CallJava2Pgcopy(VariedTable, "id")

SpecValue == InitValue /\ [][NextValue]_vars

(* ------------------------ claims on ValueConversion -------------------- *)
\* C13: for every column value and custom conversion, java2pgcopy returns
\* 't' when the converted value is boolean true, 'f' when it is boolean
\* false and '\N' when it is null; java2json returns a boolean unchanged
\* and 'null' for null; java2python unwraps a Java Boolean to the native
\* boolean of the same truth value (which the custom conversion receives).
C13_BooleansAndNulls ==
    \A i \in 1..Len(out) :
        LET converted == java2python(VariedTable, "id", out[i].value)
            result == out[i].result
        IN  /\ out[i].fn = "java2pgcopy" =>
                /\ converted = PyBool(TRUE) => result = Value("str", "t")
                /\ converted = PyBool(FALSE) => result = Value("str", "f")
                /\ converted = PyNone => result = Value("str", "\\N")
            /\ out[i].fn = "java2json" =>
                /\ converted.cls = "bool" => result = converted
                /\ converted = PyNone => result = Value("str", "null")
            /\ (out[i].fn = "java2python"
                    /\ out[i].value.cls = "java.lang.Boolean") =>
                /\ custom_conversion = "identity" =>
                       /\ result.cls = "bool"
                       /\ (result = PyBool(TRUE))
                              <=> (out[i].value.repr = "true")
                /\ result = apply_custom_conversion(
                                VariedTable, "id",
                                PyBool(out[i].value.repr = "true"))

\* with a custom conversion that turns False into None: the bulk-copy
\* token of a Java Boolean true and the JSON value of a Java Boolean false
C13_Witness ==
    /\ custom_conversion = "false_to_null"
    /\ \E i \in 1..Len(out) :
           /\ out[i].fn = "java2pgcopy"
           /\ out[i].value = Value("java.lang.Boolean", "true")
           /\ out[i].result = Value("str", "t")
    /\ \E i \in 1..Len(out) :
           /\ out[i].fn = "java2json"
           /\ out[i].value = Value("java.lang.Boolean", "false")
           /\ out[i].result = Value("str", "null")

(* ----------------------- reading a Field's properties ------------------ *)
\* the columns of the table whose fields are read: the first of these
FieldColumns == <<"title", "id", "reporter">>

\* column.type.name() and column.length of the columns a file can hold
TypePool ==
    {[name |-> "TEXT", length |-> MEMO_LENGTH], [name |-> "TEXT", length |-> 100],
     [name |-> "INT", length |-> 2], [name |-> "LONG", length |-> 4],
     [name |-> "BOOLEAN", length |-> 1],
     [name |-> "SHORT_DATE_TIME", length |-> 8],
     [name |-> "MEMO", length |-> 0], [name |-> "DOUBLE", length |-> 8]}

\* the indexes on the first column, alone or with the second
FieldIndexPool(cs) ==
    {i \in IndexPool(cs) : i.columns[1] = cs[1]}

\* the relationship that makes the first column a foreign key
FieldRelPool ==
    {[toTable |-> VariedTable, toColumn |-> FieldColumns[1],
      fromTable |-> "Reporter", fromColumn |-> "id"]}

\* one read of a property of a Field and what it gave
FieldRead(fn, f, result) == [fn |-> fn, field |-> f, result |-> result]

\* field.field_class: self.foreign_key reads database.relationships, which
\* builds the index on first use; out holds the last read
ReadFieldClass(f) ==
    /\ get_relationships({}, {})
    /\ out' = IF exc' = ""
              THEN <<FieldRead("field_class", f,
                               <<field_class(relCache'[1].forward, f)>>)>>
              ELSE out
    /\ UNCHANGED <<env, orderVars, pc, position, rowVars>>

\* list(field.attrs)
ReadAttrs(f) ==
    /\ get_relationships({}, {})
    /\ out' = IF exc' = ""
              THEN <<FieldRead("attrs", f, attrs(relCache'[1].forward, f))>>
              ELSE out
    /\ UNCHANGED <<env, orderVars, pc, position, rowVars>>

\* a table with one or more columns, any indexes on the first of them, any
\* type for it, and the first column a foreign key or not
InitField ==
    /\ \E k \in 1..MaxCols :
         LET cs == SubSeq(FieldColumns, 1, k)
         IN  /\ columns = [t \in Tables |-> IF t = VariedTable THEN cs
                                            ELSE StdColumns]
             /\ \E is \in SeqsUpTo(FieldIndexPool(cs), MaxIndexes) :
                  /\ OnePrimaryKey(is)
                  /\ indexes = [t \in Tables |-> IF t = VariedTable THEN is
                                                 ELSE StdIndexes]
    /\ \E ty \in TypePool :
         coltype = [t \in Tables |-> [c \in Range(columns[t]) |->
                       IF t = VariedTable /\ c = FieldColumns[1] THEN ty
                       ELSE StdType]]
    /\ declared \in SUBSET FieldRelPool
    /\ hidden = {}
    /\ nameMap \in {"verbatim", "custom"}
    /\ rowCount = [t \in Tables |-> 0]
    /\ DefaultOptions
    /\ selected = {}
    /\ Unread

NextField ==
    \/ \E f \in RealFields(VariedTable) : ReadFieldClass(f)
    \/ \E f \in RealFields(VariedTable) : ReadAttrs(f)

SpecField == InitField /\ [][NextField]_vars

(* ------------------------ claims on the field mapper ------------------- *)
\* the attributes of as whose keyword is in atts
AttrsIn(as, atts) == SelectSeq(as, LAMBDA a : a.att \in atts)

\* the places in access_table.indexes of the single-column indexes on the
\* column of f
IndexesOn(f) ==
    {k \in 1..Len(indexes[f.model]) :
        indexes[f.model][k].columns = <<f.column>>}

\* the index the lookup gives: the last of them
TheIndex(f) == indexes[f.model][Max(IndexesOn(f))]

\* label, max_length and the foreign-key attributes are of rank 1, the
\* markers of rank 2, db_column of rank 3
Rank(att) ==
    CASE att \in {"primary_key", "db_index", "unique"} -> 2
      [] att = "db_column" -> 3
      [] OTHER -> 1

C15_FieldClass ==
    \A i \in 1..Len(out) : out[i].fn = "field_class" =>
        LET f == out[i].field
            type == coltype[f.model][f.column]
            isKey == IndexesOn(f) # {} /\ TheIndex(f).primaryKey
        IN  out[i].result =
              <<CASE f \in DOMAIN relCache[1].forward -> "ForeignKey"
                  [] f \notin DOMAIN relCache[1].forward
                         /\ type.name = "TEXT" ->
                         IF type.length = 8190 THEN "TextField"
                         ELSE "CharField"
                  [] f \notin DOMAIN relCache[1].forward
                         /\ type.name \in {"INT", "LONG"} ->
                         IF isKey THEN "AutoField" ELSE "IntegerField"
                  [] f \notin DOMAIN relCache[1].forward
                         /\ type.name = "BOOLEAN" -> "BooleanField"
                  [] f \notin DOMAIN relCache[1].forward
                         /\ type.name = "SHORT_DATE_TIME" -> "DateTimeField"
                  [] OTHER -> None>>

\* the class of a foreign key that is the primary key and whose column is
\* of a type without a class
C15_Witness ==
    \E i \in 1..Len(out) :
        /\ out[i].fn = "field_class"
        /\ out[i].result = <<"ForeignKey">>
        /\ primary_key(out[i].field)
        /\ coltype[out[i].field.model][out[i].field.column].name = "DOUBLE"

(* -------------------------- claims on the row cursor ------------------- *)
\* every row of table t once, in the order of the cursor
AllRows(t) == [i \in 1..rowCount[t] |-> i - 1]

\* C16: in run_conversion with any of the outputs selected, a table's
\* cursor is reset only when no pass over its rows is in progress: at most
\* one pass per table is under way, it is the one started last and it has
\* every row the cursor handed out since the reset; a pass that ended
\* yielded every row of the table once, in order; no pass is left under
\* way when a generator or the run ends.
C16_OnePassAtATime ==
    /\ \A p \in 1..Len(passes) :
           LET t == passes[p].table
           IN  IF passes[p].open
               THEN /\ p = LastPass(Rows, t)
                    /\ passes[p].rows = SubSeq(AllRows(t), 1, cursor[t])
               ELSE passes[p].rows = AllRows(t)
    /\ (pc \in {"idle", "done"} /\ exc = "") =>
           \A p \in 1..Len(passes) : ~passes[p].open

\* a run that ended after two emitters each read the rows of a table with
\* more than one row
C16_Witness ==
    /\ pc = "done"
    /\ \E p, q \in 1..Len(passes) :
           /\ p < q
           /\ passes[p].table = passes[q].table
           /\ Len(passes[p].rows) > 1
           /\ passes[p].rows = passes[q].rows

(* ---------------------- direct calls of order_models ------------------- *)
\* list(wrapper.order_models(wrapper.models)) by a caller: the generator
\* gets the default argument as done
CallOrderModels ==
    /\ exc = ""
    /\ pc = "idle"
    /\ stack = <<>>
    /\ Len(returned) < MaxCalls
    /\ stack' = <<Frame(models, <<>>)>>
    /\ yielded' = <<>>
    /\ pc' = "order_models"
    /\ UNCHANGED <<env, fieldsCache, indexVars, orderedCache, done, returned,
                   out, position, rowVars, exc>>

\* a generator started by another one is exhausted
InnerReturn == Len(stack) > 1 /\ OrderReturn

\* the generator the caller started is exhausted: list() returns what it
\* yielded
CallReturn ==
    /\ exc = ""
    /\ pc = "order_models"
    /\ Len(stack) = 1
    /\ stack[1].iter = <<>>
    /\ stack' = <<>>
    /\ returned' = Append(returned, yielded)
    /\ pc' = "idle"
    /\ UNCHANGED <<env, fieldsCache, indexVars, orderedCache, done, yielded,
                   out, position, rowVars, exc>>

NextCalls ==
    \/ CallOrderModels
    \/ OrderSkip
    \/ OrderVisit
    \/ InnerReturn
    \/ CallReturn

SpecCalls == InitRel /\ [][NextCalls]_vars

\* C17: the visited set of order_models is scoped to one traversal: a
\* second call of order_models(models) without a visited set yields the
\* same sequence as the first.
C17_SecondCallYieldsTheSame ==
    \A i \in 1..Len(returned) : returned[i] = returned[1]

(* ------------------------- claims on the table names ------------------- *)
\* C18: when keep_table_names is false, the table a Model's DELETE
\* statement, COPY header and Meta db_table line name is
\* '<app_name>_<lower-cased model name>' with the application name the
\* wrapper was built with, the name that prefixes the model identifier of
\* the fixture records.
C18_DbTableUsesAppName ==
    ~keep_table_names =>
        /\ (Holds("models") \/ Holds("postgresql")) =>
               \A i \in 1..Len(out) :
                   (/\ out[i].kind = "line"
                    /\ out[i].line[1].what \in {"delete", "copy", "db_table"})
                   => out[i].line[1].arg[1].table =
                          <<app_name, "_", lower(model_name(out[i].model))>>
        /\ Holds("fixture") =>
               \A i \in 1..Len(out) :
                   out[i].kind = "line" =>
                       out[i].line[1].data.model =
                           <<app_name, lower(model_name(out[i].model))>>

(* ------------------------ claims on the progress items ----------------- *)
\* the progress tuples among items
ProgressItems(items) == SelectSeq(items, LAMBDA x : x.kind = "progress")

\* C19: for each of the four emitters, the remaining-work count of every
\* progress item it yields is at least 0 and at most the count of the
\* first progress item it yielded, so the fraction 1 - remaining / first
\* stays between 0 and 1.
C19_RemainingWithinBounds ==
    \A e \in Range(OUTPUT_TYPES) : Holds(e) =>
        LET ps == ProgressItems(out)
        IN  \A i \in 1..Len(ps) :
                /\ ps[i].remaining >= 0
                /\ ps[i].remaining <= ps[1].remaining

(* ------------------------------ calling forloop ------------------------ *)
\* the items of the sequences given to forloop
Items == {"a", "b", "c"}

\* list(forloop(seq)) for a sequence of up to MaxLen items; out holds the
\* last call
CallForloop ==
    /\ \E seq \in SeqsUpTo(Items, MaxLen) :
           out' = <<Conversion("forloop", seq, forloop(seq))>>
    /\ UNCHANGED <<env, fieldsCache, indexVars, orderVars, pc, position,
                   rowVars, exc>>

InitForloop ==
    /\ columns = [t \in Tables |-> StdColumns]
    /\ indexes = [t \in Tables |-> StdIndexes]
    /\ declared = {}
    /\ hidden = {}
    /\ nameMap = "verbatim"
    /\ rowCount = [t \in Tables |-> 0]
    /\ coltype = [t \in Tables |-> [c \in Range(columns[t]) |-> StdType]]
    /\ DefaultOptions
    /\ selected = {}
    /\ Unread

NextForloop == CallForloop

SpecForloop == InitForloop /\ [][NextForloop]_vars

(* ---------------------------- claims on forloop ------------------------ *)
\* C20: forloop yields one triple (is_first, item, is_last) per item of its
\* input, in input order; is_first is true for the first item only and
\* is_last for the last item only (both for a one-item sequence); an empty
\* sequence yields nothing.
C20_ForloopMarksFirstAndLast ==
    \A n \in 1..Len(out) :
        LET seq == out[n].value
            res == out[n].result
        IN  /\ Len(res) = Len(seq)
            /\ seq = <<>> => res = <<>>
            /\ \A i \in 1..Len(res) :
                   /\ res[i].item = seq[i]
                   /\ res[i].first <=> (i = 1)
                   /\ res[i].last <=> (i = Len(seq))

\* a sequence of three or more items, the same item first and last
C20_Witness ==
    \E n \in 1..Len(out) :
        LET seq == out[n].value
            res == out[n].result
        IN  /\ Len(seq) >= 3
            /\ seq[1] = seq[Len(seq)]
            /\ res[1].first /\ ~res[1].last
            /\ ~res[2].first /\ ~res[2].last
            /\ res[Len(seq)].last /\ ~res[Len(seq)].first

=============================================================================
